---- MODULE Spec2Model ----
(***************************************************************************)
(* ClusterPipe: the sky-map renderer show_map, the PSF estimator           *)
(* get_cta_psf, events_quicklook and the response selection of show_irf    *)
(* (Tools/plotting.py), and Admin._check_obsID, config_save, config_load   *)
(* (clustpipe_admin.py).                                                   *)
(*                                                                         *)
(* Specifications.  Spec: show_map on readable rasters.  SpecPlotting: the *)
(* plotting routines together, on readable and unreadable files.  SpecPsf: *)
(* get_cta_psf.  SpecAdmin: _check_obsID.  SpecIrf: show_irf.              *)
(* SpecConfig: config_save and config_load, with the caller changing the   *)
(* attributes of the object between calls.                                 *)
(*                                                                         *)
(* Numbers.  Python floats are modelled by exact fixed-point integers:     *)
(*   - sky angles (RA, Dec, radii, FWHM, pixel step) in units of 0.1 deg,  *)
(*     the grid of every literal offset of the code (0.1, 0.2, 0.3, 0.6);  *)
(*   - sigma_sm and norm in units of 1/1000;                               *)
(*   - pixel values in units of 1/ImgScale, chosen so that the blur and    *)
(*     the significance rescaling are exact (no rounding of the model can  *)
(*     turn a non-zero pixel into zero);                                   *)
(*   - cosines as exact fractions, for the declinations of CosTable.       *)
(* None is the empty tuple, a value v that is present is <<v>>.            *)
(***************************************************************************)
EXTENDS Integers, Sequences, FiniteSets, TLC

VARIABLES
    pc,          \* position of the interpreter inside the running routine
    args,        \* the arguments of the current (or last) call
    image,       \* local `image`
    sigma_sm,    \* local `sigma_sm`, in 1/1000 pixel
    vmin, vmax,  \* locals `vmin`, `vmax`
    i,           \* loop index `i` of the running loop (1-based)
    warnings,    \* warnings printed by the current (or last) call
    raised,      \* exception that ended the last call, "none" otherwise
    written,     \* what the current (or last) call wrote to outfile
    fig1,        \* artists on pyplot's figure number 1 (kept until plt.close)
    base,        \* number of artists figure 1 held when the call reached it
    open_files,  \* FITS handles opened and not closed
    psf_log,     \* history: every PSF glyph drawn, with the projection and PSF
                 \* it was drawn for and whether it was the only overlay so far
    ncalls,      \* number of calls made so far
    fn,          \* the routine that is running (or ran last), "none" otherwise
    infile,      \* condition of the file the current call was given
    figsize,     \* size of pyplot's figure number 1, None while it does not exist
    cta_in,      \* get_cta_psf: the arguments of the call
    cta_ret,     \* get_cta_psf: the value returned
    obsid,       \* Admin: self.obs_setup.obsid
    chk_in,      \* Admin._check_obsID: the argument obsID
    chk_ret,     \* Admin._check_obsID: the list returned
    irf_in,      \* show_irf: the parallel lists caldb_in, irf_in
    list_use,    \* show_irf: local `list_use`
    caldb_use,   \* show_irf: local `caldb_use`
    irf_use,     \* show_irf: local `irf_use`
    irf_files,   \* show_irf: the files written, in order
    attrs,       \* Admin: self.__dict__ without obs_setup, name -> value
    fs,          \* the directories that exist and the content of each
                 \* config.pkl, as the pickle opcodes written to it
    cfg_in,      \* config_save, config_load: the file of the call and the
                 \* attributes the object had when the call was made
    saved_dict   \* history: for each config.pkl, the attributes the object had
                 \* at the last config_save that completed on it

vars == <<pc, args, image, sigma_sm, vmin, vmax, i, warnings, raised,
          written, fig1, base, open_files, psf_log, ncalls, fn, infile, figsize,
          cta_in, cta_ret, obsid, chk_in, chk_ret, irf_in, list_use, caldb_use,
          irf_use, irf_files, attrs, fs, cfg_in, saved_dict>>

\* The variables of the routines other than show_map.
cta_vars == <<cta_in, cta_ret>>
cfg_vars == <<attrs, fs, cfg_in, saved_dict>>
admin_vars == <<obsid, chk_in, chk_ret, cfg_vars>>
irf_vars == <<irf_in, list_use, caldb_use, irf_use, irf_files>>
\* The locals of show_map.
map_locals == <<args, image, sigma_sm, vmin, vmax>>

----------------------------------------------------------------------------
(* Bounds of the model *)

MaxCalls == 2
MaxPs == 2
MaxPtg == 2
MaxPixel == 1

----------------------------------------------------------------------------
(* Optional values and Python scalars / lists *)

None == <<>>
Some(v) == <<v>>
IsNone(o) == o = <<>>
Val(o) == o[1]

\* A pointing argument: None, a float, or a list of floats.
PyNone == [tag |-> "none", v |-> <<>>]
PyFloat(x) == [tag |-> "float", v |-> <<x>>]
PyList(s) == [tag |-> "list", v |-> s]

----------------------------------------------------------------------------
(* Numerics *)

ImgScale == 16 * 1000

Abs(x) == IF x < 0 THEN -x ELSE x

\* np.cos(dec*np.pi/180) for dec in 0.1 deg, as an exact fraction.
np_cos(dec) ==
    CASE dec = 0 -> [num |-> 1, den |-> 1]
      [] dec = 600 -> [num |-> 1, den |-> 2]
      [] dec = -600 -> [num |-> 1, den |-> 2]

CosTable == {-600, 0, 600}

\* x / np.cos(dec)
DivCos(x, dec) == (x * np_cos(dec).den) \div np_cos(dec).num

RECURSIVE SeqMin(_), SeqMax(_)
SeqMin(s) ==
    IF Len(s) = 1 THEN s[1]
    ELSE LET m == SeqMin(Tail(s)) IN IF s[1] < m THEN s[1] ELSE m
SeqMax(s) ==
    IF Len(s) = 1 THEN s[1]
    ELSE LET m == SeqMax(Tail(s)) IN IF s[1] > m THEN s[1] ELSE m

\* np.amin / np.amax of a 2-D array (a sequence of rows)
np_amin(img) == SeqMin([r \in 1..Len(img) |-> SeqMin(img[r])])
np_amax(img) == SeqMax([r \in 1..Len(img) |-> SeqMax(img[r])])

AllZero(img) == \A r \in 1..Len(img) : \A c \in 1..Len(img[r]) : img[r][c] = 0

----------------------------------------------------------------------------
(* Smoothing and significance correction *)

\* sigma_sm = (smoothing_FWHM/(2*sqrt(2*ln 2))).to_value('deg')/reso, in 1/1000
\* pixel; 2*sqrt(2*ln 2) = 2.355.
SigmaSm(fwhm, reso) == (fwhm * 1000 * 1000) \div (2355 * reso)

\* Index of the pixel read at position k of an axis of length n under
\* scipy's default boundary mode 'reflect' (d c b a | a b c d | d c b a).
Reflect(k, n) == IF k < 1 THEN 1 ELSE IF k > n THEN n ELSE k

\* One pass of the kernel along the rows (axis 1), weights (1, 2, 1).
BlurRows(img) ==
    [r \in 1..Len(img) |->
        [c \in 1..Len(img[r]) |->
            img[r][Reflect(c - 1, Len(img[r]))] + 2 * img[r][c]
            + img[r][Reflect(c + 1, Len(img[r]))]]]

\* One pass of the kernel along the columns (axis 0).
BlurCols(img) ==
    [r \in 1..Len(img) |->
        [c \in 1..Len(img[r]) |->
            img[Reflect(r - 1, Len(img))][c] + 2 * img[r][c]
            + img[Reflect(r + 1, Len(img))][c]]]

\* Variant of gaussian_filter: sigma = 0 is passed on to the kernel instead of
\* being skipped, and the degenerate kernel blurs like any other.
gaussian_filter_degenerate(img, sigma) ==
    LET b == BlurCols(BlurRows(img))
    IN [r \in 1..Len(b) |-> [c \in 1..Len(b[r]) |-> b[r][c] \div 16]]

\* ndimage.gaussian_filter(image, sigma): scipy filters only the axes whose
\* sigma exceeds 1e-15 and copies the input when there is none; otherwise a
\* normalised, symmetric, positive kernel is applied along each axis.  The
\* kernel is the 3-tap binomial (1, 2, 1)/4 here.
gaussian_filter(img, sigma) ==
    IF sigma > 0
    THEN LET b == BlurCols(BlurRows(img))
         IN [r \in 1..Len(b) |-> [c \in 1..Len(b[r]) |-> b[r][c] \div 16]]
    ELSE img

\* norm = 2*sigma_sm*np.sqrt(np.pi), in 1/1000; sqrt(pi) = 1.772.
SignificanceNorm(sigma) == (2 * sigma * 1772) \div 1000

\* image *= norm
Rescale(img, norm) ==
    [r \in 1..Len(img) |-> [c \in 1..Len(img[r]) |-> (img[r][c] * norm) \div 1000]]

----------------------------------------------------------------------------
(* Artists of a matplotlib figure *)

\* plt.imshow(image, norm=..., vmin=..., vmax=...)
AxesImage(img, lo, hi, nrm) ==
    [kind |-> "image", data |-> img, vmin |-> lo, vmax |-> hi, norm |-> nrm]

\* matplotlib.patches.Ellipse(xy, width, height, ...): width and height are
\* the full lengths of the horizontal and vertical axes.
Ellipse(x, y, width, height, edge, filled) ==
    [kind |-> "ellipse", xy |-> <<x, y>>, width |-> width, height |-> height,
     edgecolor |-> edge, fill |-> filled]

\* plt.text(x, y, s, color=...)
Text(x, y, s, col) == [kind |-> "text", xy |-> <<x, y>>, s |-> s, color |-> col]

\* ax.scatter(x, y, marker=..., ...): one marker per offset.
Scatter(offsets, col, mark) ==
    [kind |-> "scatter", offsets |-> offsets, color |-> col, marker |-> mark]

\* The artists the current call has added to figure 1.
Drawn == SubSeq(fig1, base + 1, Len(fig1))

----------------------------------------------------------------------------
(* Inputs *)

PixelValues == {-1, 0, MaxPixel}

\* 2 x 2 rasters, pixel values in units of 1/ImgScale
Rasters ==
    {<<<<a * ImgScale, b * ImgScale>>, <<c * ImgScale, d * ImgScale>>>> :
        a \in PixelValues, b \in PixelValues, c \in PixelValues, d \in PixelValues}

ZeroRaster == <<<<0, 0>>, <<0, 0>>>>
OneRaster == <<<<0, ImgScale>>, <<-ImgScale, 0>>>>
PeakRaster == <<<<0, 0>>, <<0, 3 * ImgScale>>>>

\* Projections (WCS): reference coordinate, reference pixel, pixel step.
WcsNorth == [crval |-> <<100, 599>>, crpix |-> <<1, 1>>, cdelt |-> <<-2, 2>>]
WcsEquator == [crval |-> <<100, -1>>, crpix |-> <<1, 1>>, cdelt |-> <<-2, 2>>]

RangeValues ==
    {<<lo, hi>> : lo \in {None, Some(-ImgScale)}, hi \in {None, Some(2 * ImgScale)}}

PsNames == <<"PS1", "PS2", "PS3", "PS4">>

\* Parallel point-source lists of one length n <= MaxPs.
PsLists ==
    UNION {[ps_name : {SubSeq(PsNames, 1, n)},
            ps_ra : [1..n -> {None, Some(101)}],
            ps_dec : [1..n -> {None, Some(598)}]] : n \in 0..MaxPs}

\* Pointings: absent, one of the two absent, a coordinate pair, or two
\* lists of one length n <= MaxPtg.
PtgArgs ==
    {[ptg_ra |-> PyNone, ptg_dec |-> PyNone],
     [ptg_ra |-> PyFloat(102), ptg_dec |-> PyNone],
     [ptg_ra |-> PyFloat(102), ptg_dec |-> PyFloat(597)]}
    \cup {[ptg_ra |-> PyList([k \in 1..n |-> 102 + k]),
           ptg_dec |-> PyList([k \in 1..n |-> 597 - k])] : n \in 0..MaxPtg}

NoPs == [ps_name |-> <<>>, ps_ra |-> <<>>, ps_dec |-> <<>>]
OnePs == [ps_name |-> <<"PS1">>, ps_ra |-> <<Some(101)>>, ps_dec |-> <<Some(598)>>]

Args(mapfile, fwhm, signif, range, log, cra, cdec, ct500, ps, ptg, psf) ==
    [mapfile |-> mapfile, smoothing_FWHM |-> fwhm, significance |-> signif,
     rangevalue |-> range, logscale |-> log,
     cluster_ra |-> cra, cluster_dec |-> cdec, cluster_t500 |-> ct500,
     cluster_name |-> "Cluster",
     ps_name |-> ps.ps_name, ps_ra |-> ps.ps_ra, ps_dec |-> ps.ps_dec,
     ptg_ra |-> ptg.ptg_ra, ptg_dec |-> ptg.ptg_dec, PSF |-> psf]

\* Calls that vary the raster, the smoothing and the significance switch.
ImageArgs ==
    {Args([data |-> r, header |-> WcsNorth], f, s, <<None, None>>, TRUE,
          None, None, None, NoPs, [ptg_ra |-> PyNone, ptg_dec |-> PyNone], None) :
        r \in Rasters, f \in {0, 2}, s \in BOOLEAN}

\* Calls that vary the colour range and the colour scale.
RangeArgs ==
    {Args([data |-> r, header |-> WcsNorth], f, s, rv, l,
          None, None, None, NoPs, [ptg_ra |-> PyNone, ptg_dec |-> PyNone], None) :
        r \in {ZeroRaster, OneRaster, PeakRaster}, f \in {0, 2}, s \in BOOLEAN,
        rv \in RangeValues, l \in BOOLEAN}

\* Calls that vary which overlays are requested.
OverlayArgs ==
    {Args(m, 0, FALSE, <<None, None>>, TRUE, cra, cdec, ct500, ps, ptg, psf) :
        m \in {[data |-> ZeroRaster, header |-> WcsNorth],
               [data |-> OneRaster, header |-> WcsNorth],
               [data |-> OneRaster, header |-> WcsEquator]},
        cra \in {None, Some(100)}, cdec \in {None, Some(0), Some(600)},
        ct500 \in {None, Some(5)}, ps \in {NoPs, OnePs},
        ptg \in {[ptg_ra |-> PyNone, ptg_dec |-> PyNone],
                 [ptg_ra |-> PyFloat(102), ptg_dec |-> PyFloat(597)]},
        psf \in {None, Some(1)}}

\* Calls that vary the pointing and point-source lists.
ListArgs ==
    {Args([data |-> OneRaster, header |-> WcsNorth], 0, FALSE, <<None, None>>, TRUE,
          Some(100), Some(600), Some(5), ps, ptg, None) :
        ps \in PsLists, ptg \in PtgArgs}

CallArgs == ImageArgs \cup RangeArgs \cup OverlayArgs \cup ListArgs

----------------------------------------------------------------------------
(* show_map, block by block *)

\* Placeholder for the arguments while no call is running.
NoArgs ==
    Args([data |-> ZeroRaster, header |-> WcsNorth], 0, FALSE, <<None, None>>,
         TRUE, None, None, None, NoPs, [ptg_ra |-> PyNone, ptg_dec |-> PyNone], None)

\* The attributes of a new Admin object, obs_setup aside.
InitAttrs ==
    [n \in {"output_dir", "silent"} |->
        IF n = "output_dir" THEN [tag |-> "str", v |-> <<"out">>]
        ELSE [tag |-> "bool", v |-> <<"True">>]]

\* The process before any call, with the observation IDs ids set up.
InitWith(ids) ==
    /\ pc = "idle"
    /\ args = NoArgs
    /\ image = ZeroRaster
    /\ sigma_sm = 0
    /\ vmin = 0
    /\ vmax = 0
    /\ i = 0
    /\ warnings = <<>>
    /\ raised = "none"
    /\ written = <<>>
    /\ fig1 = <<>>
    /\ base = 0
    /\ open_files = 0
    /\ psf_log = {}
    /\ ncalls = 0
    /\ fn = "none"
    /\ infile = "none"
    /\ figsize = None
    /\ cta_in = None
    /\ cta_ret = None
    /\ obsid = ids
    /\ chk_in = None
    /\ chk_ret = None
    /\ irf_in = None
    /\ list_use = <<>>
    /\ caldb_use = <<>>
    /\ irf_use = <<>>
    /\ irf_files = <<>>
    /\ attrs = InitAttrs
    /\ fs = [dirs |-> {"out"}, files |-> <<>>]
    /\ cfg_in = None
    /\ saved_dict = <<>>

Init == InitWith(<<>>)

wcs_map == args.mapfile.header

\* reso = abs(wcs_map.wcs.cdelt[0])
reso == Abs(wcs_map.cdelt[1])

\* The call and "Read the data": fits.open(mapfile)[0] is never closed.
show_map(a) ==
    /\ pc = "idle"
    /\ ncalls < MaxCalls
    /\ ncalls' = ncalls + 1
    /\ args' = a
    /\ open_files' = open_files + 1
    /\ image' = a.mapfile.data
    /\ sigma_sm' = 0
    /\ vmin' = 0
    /\ vmax' = 0
    /\ i' = 0
    /\ warnings' = <<>>
    /\ raised' = "none"
    /\ written' = <<>>
    /\ base' = Len(fig1)
    /\ pc' = "smooth"
    /\ UNCHANGED <<fig1, psf_log>>
    /\ fn' = "show_map"
    /\ infile' = "ok"
    /\ UNCHANGED <<figsize, cta_vars, admin_vars, irf_vars>>

\* "Smoothing"
Smoothing ==
    /\ pc = "smooth"
    /\ sigma_sm' = SigmaSm(args.smoothing_FWHM, reso)
    /\ image' = gaussian_filter(image, sigma_sm')
    /\ pc' = "signif"
    /\ UNCHANGED <<args, vmin, vmax, i, warnings, raised, written, fig1, base,
                   open_files, psf_log, ncalls>>
    /\ UNCHANGED <<fn, infile, figsize, cta_vars, admin_vars, irf_vars>>

\* if significance: image *= norm, and the two-line warning is printed
Significance ==
    /\ pc = "signif"
    /\ IF args.significance
       THEN /\ image' = Rescale(image, SignificanceNorm(sigma_sm))
            /\ warnings' = Append(warnings, "significance")
       ELSE UNCHANGED <<image, warnings>>
    /\ pc' = "range"
    /\ UNCHANGED <<args, sigma_sm, vmin, vmax, i, raised, written, fig1, base,
                   open_files, psf_log, ncalls>>
    /\ UNCHANGED <<fn, infile, figsize, cta_vars, admin_vars, irf_vars>>

ResolveVmin(rangevalue, img) ==
    IF IsNone(rangevalue[1]) THEN np_amin(img) ELSE Val(rangevalue[1])

\* Variant of ResolveVmax: the data maximum is used unless both bounds are given.
ResolveVmaxCoupled(rangevalue, img) ==
    IF IsNone(rangevalue[1]) \/ IsNone(rangevalue[2])
    THEN np_amax(img)
    ELSE Val(rangevalue[2])

ResolveVmax(rangevalue, img) ==
    IF IsNone(rangevalue[2]) THEN np_amax(img) ELSE Val(rangevalue[2])

\* "map range"
MapRange ==
    /\ pc = "range"
    /\ vmin' = ResolveVmin(args.rangevalue, image)
    /\ vmax' = ResolveVmax(args.rangevalue, image)
    /\ pc' = "plot"
    /\ UNCHANGED <<args, image, sigma_sm, i, warnings, raised, written, fig1,
                   base, open_files, psf_log, ncalls>>
    /\ UNCHANGED <<fn, infile, figsize, cta_vars, admin_vars, irf_vars>>

\* Variant of IsEmptyMap: the second comparison is inverted.
IsEmptyMapInverted(img) == (np_amax(img) = 0) /\ (np_amin(img) # 0)

\* the negation of the condition of the "Plot" branch
IsEmptyMap(img) == (np_amax(img) = 0) /\ (np_amin(img) = 0)

\* plt.figure(1), plt.subplot, plt.imshow
Imshow ==
    /\ pc = "plot"
    /\ ~IsEmptyMap(image)
    /\ fig1' = Append(fig1, AxesImage(image, vmin, vmax,
                                      IF args.logscale THEN "symlog" ELSE "linear"))
    /\ pc' = "cluster"
    /\ UNCHANGED <<args, image, sigma_sm, vmin, vmax, i, warnings, raised,
                   written, base, open_files, psf_log, ncalls>>
    /\ figsize' = IF IsNone(figsize) THEN Some(<<12, 12>>) ELSE figsize
    /\ UNCHANGED <<fn, infile, cta_vars, admin_vars, irf_vars>>

\* else: print('!!!!!!!!!! WARNING: empty map, ... was not created')
EmptyMapWarning ==
    /\ pc = "plot"
    /\ IsEmptyMap(image)
    /\ warnings' = Append(warnings, "empty_map")
    /\ pc' = "done"
    /\ UNCHANGED <<args, image, sigma_sm, vmin, vmax, i, raised, written, fig1,
                   base, open_files, psf_log, ncalls>>
    /\ UNCHANGED <<fn, infile, figsize, cta_vars, admin_vars, irf_vars>>

----------------------------------------------------------------------------
(* Overlays *)

\* condition of "Show cluster t500"
DrawsRegion(a) ==
    ~IsNone(a.cluster_t500) /\ ~IsNone(a.cluster_ra) /\ ~IsNone(a.cluster_dec)

\* Variant of RegionArtists: the ellipse is not stretched by 1/cos(dec).
RegionArtistsNoStretch(cluster_ra, cluster_dec, cluster_t500) ==
    <<Ellipse(cluster_ra, cluster_dec, 2 * cluster_t500, 2 * cluster_t500,
              "lightgray", FALSE),
      Text(cluster_ra - cluster_t500, cluster_dec - cluster_t500,
           "$R_{500}$", "lightgray")>>

\* circle_500 (width circle_rad = 2*cluster_t500/cos(dec), height
\* 2*cluster_t500) and its label txt_r500
RegionArtists(cluster_ra, cluster_dec, cluster_t500) ==
    <<Ellipse(cluster_ra, cluster_dec,
              DivCos(2 * cluster_t500, cluster_dec), 2 * cluster_t500,
              "lightgray", FALSE),
      Text(cluster_ra - cluster_t500, cluster_dec - cluster_t500,
           "$R_{500}$", "lightgray")>>

ShowClusterT500 ==
    /\ pc = "cluster"
    /\ fig1' = IF DrawsRegion(args)
               THEN fig1 \o RegionArtists(Val(args.cluster_ra), Val(args.cluster_dec),
                                          Val(args.cluster_t500))
               ELSE fig1
    /\ pc' = "pointing"
    /\ UNCHANGED <<args, image, sigma_sm, vmin, vmax, i, warnings, raised,
                   written, base, open_files, psf_log, ncalls>>
    /\ UNCHANGED <<fn, infile, figsize, cta_vars, admin_vars, irf_vars>>

\* condition of "Show the pointing"
DrawsPointing(a) == a.ptg_ra.tag # "none" /\ a.ptg_dec.tag # "none"

\* ax.scatter(ptg_ra, ptg_dec, color='white', marker='x')
PointingMarkers(ptg_ra, ptg_dec) ==
    Scatter([k \in 1..Len(ptg_ra.v) |-> <<ptg_ra.v[k], ptg_dec.v[k]>>], "white", "x")

\* The try block raises TypeError on ptg_dec+0.2 when ptg_dec is a list;
\* the except block then raises IndexError on ptg_ra[0] when the list is empty.
PointingRaises(ptg_ra, ptg_dec) == ptg_dec.tag = "list" /\ Len(ptg_ra.v) = 0

\* Variant of PointingLabel: the except block anchors the label at the last
\* pointing of the list.
PointingLabelLast(ptg_ra, ptg_dec) ==
    IF ptg_dec.tag = "float"
    THEN <<Text(ptg_ra.v[1], ptg_dec.v[1] + 2, "Pointing", "white")>>
    ELSE IF Len(ptg_ra.v) = 0
         THEN <<>>
         ELSE <<Text(ptg_ra.v[Len(ptg_ra.v)], ptg_dec.v[Len(ptg_dec.v)] + 2,
                     "Pointings", "white")>>

\* txt_ptg, of the try block or of the except block
PointingLabel(ptg_ra, ptg_dec) ==
    IF ptg_dec.tag = "float"
    THEN <<Text(ptg_ra.v[1], ptg_dec.v[1] + 2, "Pointing", "white")>>
    ELSE IF Len(ptg_ra.v) = 0
         THEN <<>>
         ELSE <<Text(ptg_ra.v[1], ptg_dec.v[1] + 2, "Pointings", "white")>>

ShowPointing ==
    /\ pc = "pointing"
    /\ IF ~DrawsPointing(args)
       THEN /\ pc' = "centre"
            /\ UNCHANGED <<fig1, raised>>
       ELSE /\ fig1' = Append(fig1, PointingMarkers(args.ptg_ra, args.ptg_dec))
                       \o PointingLabel(args.ptg_ra, args.ptg_dec)
            /\ IF PointingRaises(args.ptg_ra, args.ptg_dec)
               THEN pc' = "raised" /\ raised' = "IndexError"
               ELSE pc' = "centre" /\ UNCHANGED raised
    /\ UNCHANGED <<args, image, sigma_sm, vmin, vmax, i, warnings, written,
                   base, open_files, psf_log, ncalls>>
    /\ UNCHANGED <<fn, infile, figsize, cta_vars, admin_vars, irf_vars>>

\* Variant of DrawsCenter: the centre marker also waits for cluster_t500.
DrawsCenterWithT500(a) ==
    ~IsNone(a.cluster_t500) /\ ~IsNone(a.cluster_ra) /\ ~IsNone(a.cluster_dec)

\* condition of "Show the cluster center"
DrawsCenter(a) == ~IsNone(a.cluster_ra) /\ ~IsNone(a.cluster_dec)

CenterArtists(cluster_ra, cluster_dec, cluster_name) ==
    <<Scatter(<<<<cluster_ra, cluster_dec>>>>, "cyan", "x"),
      Text(cluster_ra, cluster_dec - 2, cluster_name, "cyan")>>

ShowClusterCenter ==
    /\ pc = "centre"
    /\ fig1' = IF DrawsCenter(args)
               THEN fig1 \o CenterArtists(Val(args.cluster_ra), Val(args.cluster_dec),
                                          args.cluster_name)
               ELSE fig1
    /\ i' = 1
    /\ pc' = "ps"
    /\ UNCHANGED <<args, image, sigma_sm, vmin, vmax, warnings, raised, written,
                   base, open_files, psf_log, ncalls>>
    /\ UNCHANGED <<fn, infile, figsize, cta_vars, admin_vars, irf_vars>>

\* condition inside the loop of "Show the point sources"
DrawsPs(a, k) == ~IsNone(a.ps_ra[k]) /\ ~IsNone(a.ps_dec[k])

PsArtists(name, ra, dec) ==
    <<Scatter(<<<<ra, dec>>>>, "green", "o"), Text(ra - 1, dec + 1, name, "green")>>

\* Variant of PsNext: an entry without coordinates ends the loop.
PsNextBreak(a, k) ==
    IF IsNone(a.ps_ra[k]) \/ IsNone(a.ps_dec[k]) THEN Len(a.ps_name) + 1 ELSE k + 1

\* Where the loop goes after looking at entry k: on to entry k + 1.
PsNext(a, k) == k + 1

\* one iteration of: for i in range(len(ps_name))
ShowPointSources ==
    /\ pc = "ps"
    /\ IF i <= Len(args.ps_name)
       THEN /\ fig1' = IF DrawsPs(args, i)
                       THEN fig1 \o PsArtists(args.ps_name[i], Val(args.ps_ra[i]),
                                              Val(args.ps_dec[i]))
                       ELSE fig1
            /\ i' = PsNext(args, i)
            /\ pc' = "ps"
       ELSE /\ pc' = "psf"
            /\ UNCHANGED <<fig1, i>>
    /\ UNCHANGED <<args, image, sigma_sm, vmin, vmax, warnings, raised, written,
                   base, open_files, psf_log, ncalls>>
    /\ UNCHANGED <<fn, infile, figsize, cta_vars, admin_vars, irf_vars>>

\* condition of "Show the PSF"
DrawsPSF(a) == ~IsNone(a.PSF)

\* circle_dec = crval[1] - (crpix*cdelt)[1] + 0.3, also the declination of
\* dec_mean_cor
PsfDec(w) == w.crval[2] - w.crpix[2] * w.cdelt[2] + 3

\* Variant of PsfArtists: the glyph is placed beside the cluster centre when
\* there is one.
PsfArtistsBesideCluster(w, psf) ==
    LET x0 == IF IsNone(args.cluster_ra)
              THEN w.crval[1] - DivCos(w.crpix[1] * w.cdelt[1], PsfDec(w))
              ELSE Val(args.cluster_ra)
    IN <<Text(x0 - 6, PsfDec(w), "PSF", "white"),
         Ellipse(x0 - 3, PsfDec(w), DivCos(psf, PsfDec(w)), psf, "white", TRUE)>>

\* txt_psf and circle_PSF, in the order they are added
PsfArtists(w, psf) ==
    <<Text(w.crval[1] - DivCos(w.crpix[1] * w.cdelt[1], PsfDec(w)) - 6, PsfDec(w),
           "PSF", "white"),
      Ellipse(w.crval[1] - DivCos(w.crpix[1] * w.cdelt[1], PsfDec(w)) - 3, PsfDec(w),
              DivCos(psf, PsfDec(w)), psf, "white", TRUE)>>

ShowPSF ==
    /\ pc = "psf"
    /\ IF DrawsPSF(args)
       THEN /\ fig1' = fig1 \o PsfArtists(wcs_map, Val(args.PSF))
            /\ psf_log' = psf_log \cup
                   {[header |-> wcs_map, PSF |-> Val(args.PSF),
                     alone |-> Len(Drawn) = 1,
                     artists |-> PsfArtists(wcs_map, Val(args.PSF))]}
       ELSE UNCHANGED <<fig1, psf_log>>
    /\ pc' = "save"
    /\ UNCHANGED <<args, image, sigma_sm, vmin, vmax, i, warnings, raised,
                   written, base, open_files, ncalls>>
    /\ UNCHANGED <<fn, infile, figsize, cta_vars, admin_vars, irf_vars>>

Colorbar == [kind |-> "colorbar"]

\* Variant of FormatAndSave: the figure is also saved before the colour bar is
\* added.
FormatAndSaveTwice ==
    /\ pc = "save"
    /\ written' = written \o <<fig1, Append(fig1, Colorbar)>>
    /\ fig1' = <<>>
    /\ pc' = "done"
    /\ figsize' = None
    /\ UNCHANGED <<args, image, sigma_sm, vmin, vmax, i, warnings, raised, base,
                   open_files, psf_log, ncalls, fn, infile, cta_vars, admin_vars,
                   irf_vars>>

\* "Formating and end": labels, title, colour bar, fig.savefig(outfile),
\* plt.close()
FormatAndSave ==
    /\ pc = "save"
    /\ written' = Append(written, Append(fig1, Colorbar))
    /\ fig1' = <<>>
    /\ pc' = "done"
    /\ UNCHANGED <<args, image, sigma_sm, vmin, vmax, i, warnings, raised, base,
                   open_files, psf_log, ncalls>>
    /\ figsize' = None
    /\ UNCHANGED <<fn, infile, cta_vars, admin_vars, irf_vars>>

\* The call is over (returned at "done", unwound at "raised"): its frame is
\* dropped with the arguments and locals; the figure, the open handles and the
\* history stay.  What the call printed and wrote is looked at before this step.
Return ==
    /\ pc \in {"done", "raised"}
    /\ pc' = "idle"
    /\ args' = NoArgs
    /\ image' = ZeroRaster
    /\ sigma_sm' = 0
    /\ vmin' = 0
    /\ vmax' = 0
    /\ i' = 0
    /\ warnings' = <<>>
    /\ raised' = "none"
    /\ written' = <<>>
    /\ base' = Len(fig1)
    /\ UNCHANGED <<fig1, open_files, psf_log, ncalls>>
    /\ fn' = "none"
    /\ infile' = "none"
    /\ cta_in' = None
    /\ cta_ret' = None
    /\ chk_in' = None
    /\ chk_ret' = None
    /\ irf_in' = None
    /\ list_use' = <<>>
    /\ caldb_use' = <<>>
    /\ irf_use' = <<>>
    /\ irf_files' = <<>>
    /\ cfg_in' = None
    /\ UNCHANGED <<figsize, obsid, attrs, fs, saved_dict>>

Next ==
    \/ \E a \in CallArgs : show_map(a)
    \/ Smoothing
    \/ Significance
    \/ MapRange
    \/ Imshow
    \/ EmptyMapWarning
    \/ ShowClusterT500
    \/ ShowPointing
    \/ ShowClusterCenter
    \/ ShowPointSources
    \/ ShowPSF
    \/ FormatAndSave
    \/ Return

Spec == Init /\ [][Next]_vars

----------------------------------------------------------------------------
(* Vocabulary of the properties *)

\* The call has returned or raised.
Ended == pc \in {"done", "raised"}

\* What the call has put on the figure: the artists it saved, or, before the
\* save, the artists it has drawn so far.
Rendered ==
    IF written # <<>> THEN SubSeq(written[1], base + 1, Len(written[1])) ELSE Drawn

Count(seq, P(_)) == Cardinality({k \in 1..Len(seq) : P(seq[k])})

PastCluster == pc \in {"pointing", "centre", "ps", "psf", "save", "raised"} \/ written # <<>>
PastPointing == pc \in {"centre", "ps", "psf", "save", "raised"} \/ written # <<>>
PastPs == pc \in {"psf", "save"} \/ written # <<>>

Pixels(img) == {img[r][c] : r \in 1..Len(img), c \in 1..Len(img[1])}

----------------------------------------------------------------------------
(* C1 *)

\* C1, as stated: a call whose input raster is all zeros writes no file, raises
\* nothing and emits exactly one warning, significance on or off.
C1_ZeroRasterOneWarning ==
    (Ended /\ AllZero(args.mapfile.data)) =>
        (written = <<>> /\ raised = "none" /\ Len(warnings) = 1)

\* C1, amended: a call whose input raster is all zeros draws nothing, writes no
\* file, raises nothing and emits the empty-map warning exactly once; with
\* significance set the significance warning is printed before it, so the call
\* emits one warning with significance off and two with significance on.
C1_ZeroRasterEmptyMap ==
    (pc # "idle" /\ AllZero(args.mapfile.data)) =>
        /\ written = <<>>
        /\ raised = "none"
        /\ Drawn = <<>>
        /\ pc \in {"smooth", "signif", "range", "plot", "done"}
        /\ pc = "done" =>
              warnings = IF args.significance
                         THEN <<"significance", "empty_map">>
                         ELSE <<"empty_map">>

C1_Witness ==
    /\ pc = "done"
    /\ AllZero(args.mapfile.data)
    /\ args.significance
    /\ args.smoothing_FWHM > 0
    /\ warnings = <<"significance", "empty_map">>
    /\ written = <<>>

----------------------------------------------------------------------------
(* C2 *)

\* C2: rendering is aborted (no file, empty-map warning) if and only if every
\* pixel is zero both in the loaded raster and after smoothing and
\* significance correction; a raster with a non-zero pixel is never treated
\* as an empty map.
C2_AbortIffLoadedAndFinalZero ==
    pc = "done" =>
        /\ (written = <<>>) <=> (AllZero(args.mapfile.data) /\ AllZero(image))
        /\ (Count(warnings, LAMBDA w : w = "empty_map") = 1)
               <=> (AllZero(args.mapfile.data) /\ AllZero(image))

----------------------------------------------------------------------------
(* C3 *)

\* C3: with smoothing_FWHM = 0, sigma_sm is 0 and the smoothing is the
\* identity: with significance off, the image that is colour-mapped equals
\* the loaded raster pixel for pixel.
C3_ZeroFwhmIdentity ==
    (args.smoothing_FWHM = 0 /\ ~args.significance) =>
        /\ pc \notin {"idle", "smooth"} => (sigma_sm = 0 /\ image = args.mapfile.data)
        /\ \A k \in 1..Len(Rendered) :
              Rendered[k].kind = "image" =>
                  \A r \in 1..Len(args.mapfile.data) :
                      \A c \in 1..Len(args.mapfile.data[r]) :
                          Rendered[k].data[r][c] = args.mapfile.data[r][c]

C3_Witness ==
    /\ pc = "done"
    /\ written # <<>>
    /\ args.smoothing_FWHM = 0
    /\ ~args.significance
    /\ args.mapfile.data = OneRaster
    /\ Rendered[1].kind = "image"
    /\ Rendered[1].data = OneRaster

----------------------------------------------------------------------------
(* C4 *)

\* C4: with significance set every pixel of the smoothed image is multiplied
\* by norm = 2*sigma_px*sqrt(pi); when sigma_px = 0 the correction is a no-op
\* and the pixels are left as they were.
C4_SignificanceNoOpAtZeroSigma ==
    (pc = "range" /\ args.significance) =>
        image = IF sigma_sm = 0
                THEN gaussian_filter(args.mapfile.data, sigma_sm)
                ELSE Rescale(gaussian_filter(args.mapfile.data, sigma_sm),
                             (2 * sigma_sm * 1772) \div 1000)

----------------------------------------------------------------------------
(* C5 *)

\* C5: each colour bound is resolved on its own: a bound of rangevalue that
\* is None becomes the minimum (lower) or maximum (upper) of the image after
\* smoothing and significance correction, a bound that is given is used as is.
C5_RangeResolvedPerBound ==
    \A k \in 1..Len(Rendered) :
        Rendered[k].kind = "image" =>
            /\ Rendered[k].data = image
            /\ IF IsNone(args.rangevalue[1])
               THEN /\ Rendered[k].vmin \in Pixels(image)
                    /\ \A v \in Pixels(image) : Rendered[k].vmin <= v
               ELSE Rendered[k].vmin = Val(args.rangevalue[1])
            /\ IF IsNone(args.rangevalue[2])
               THEN /\ Rendered[k].vmax \in Pixels(image)
                    /\ \A v \in Pixels(image) : Rendered[k].vmax >= v
               ELSE Rendered[k].vmax = Val(args.rangevalue[2])

C5_Witness ==
    /\ pc = "done"
    /\ written # <<>>
    /\ args.rangevalue = <<None, Some(2 * ImgScale)>>
    /\ args.smoothing_FWHM > 0
    /\ args.significance
    /\ image # args.mapfile.data
    /\ Rendered[1].vmin = np_amin(image)
    /\ Rendered[1].vmin # np_amin(args.mapfile.data)
    /\ Rendered[1].vmax = 2 * ImgScale

----------------------------------------------------------------------------
(* C6 *)

IsRegionEllipse(x) == x.kind = "ellipse" /\ ~x.fill
IsRegionLabel(x) == x.kind = "text" /\ x.s = "$R_{500}$"

\* C6: the region ellipse of a cluster radius r at declination dec is centred
\* on (cluster_ra, cluster_dec), its RA half-width is r / cos(dec) and its Dec
\* half-height is r (dec = 60 deg, r = 0.5 deg: RA half-width 1.0 deg), and
\* its label is at (cluster_ra - r, cluster_dec - r).  Widths are full axis
\* lengths, so half-width * cos(dec) = r reads width * num = 2 * r * den.
C6_RegionEllipseGeometry ==
    (PastCluster /\ DrawsRegion(args)) =>
        LET ra == Val(args.cluster_ra)
            dec == Val(args.cluster_dec)
            r == Val(args.cluster_t500)
        IN /\ Count(Rendered, IsRegionEllipse) = 1
           /\ Count(Rendered, IsRegionLabel) = 1
           /\ \A k \in 1..Len(Rendered) :
                 /\ IsRegionEllipse(Rendered[k]) =>
                       /\ Rendered[k].xy = <<ra, dec>>
                       /\ Rendered[k].width * np_cos(dec).num = 2 * r * np_cos(dec).den
                       /\ Rendered[k].height = 2 * r
                       /\ (dec = 600 /\ r = 5) => Rendered[k].width = 2 * 10
                 /\ IsRegionLabel(Rendered[k]) => Rendered[k].xy = <<ra - r, dec - r>>

C6_Witness ==
    /\ pc = "done"
    /\ written # <<>>
    /\ DrawsRegion(args)
    /\ args.cluster_dec = Some(600)
    /\ args.cluster_t500 = Some(5)
    /\ \E k \in 1..Len(Rendered) :
          IsRegionEllipse(Rendered[k]) /\ Rendered[k].width = 20 /\ Rendered[k].height = 10

----------------------------------------------------------------------------
(* C7 *)

OverlayKinds == {"region", "pointing", "centre", "ps", "psf"}

\* The overlays the code draws for the arguments a (on a map that is rendered).
OverlaysOf(a) ==
    {k \in OverlayKinds :
        \/ k = "region" /\ DrawsRegion(a)
        \/ k = "pointing" /\ DrawsPointing(a)
        \/ k = "centre" /\ DrawsCenter(a)
        \/ k = "ps" /\ \E n \in 1..Len(a.ps_name) : DrawsPs(a, n)
        \/ k = "psf" /\ DrawsPSF(a)}

\* The overlays found among artists.
KindsIn(artists) ==
    {k \in OverlayKinds :
        \E n \in 1..Len(artists) :
            \/ k = "region" /\ IsRegionEllipse(artists[n])
            \/ k = "pointing" /\ artists[n].kind = "scatter" /\ artists[n].color = "white"
            \/ k = "centre" /\ artists[n].kind = "scatter" /\ artists[n].color = "cyan"
            \/ k = "ps" /\ artists[n].kind = "scatter" /\ artists[n].color = "green"
            \/ k = "psf" /\ artists[n].kind = "ellipse" /\ artists[n].fill}

\* Calls that render a map to the end.
RenderingArgs ==
    {a \in OverlayArgs :
        ~AllZero(a.mapfile.data) /\ ~PointingRaises(a.ptg_ra, a.ptg_dec)}

\* C7, as stated: the five overlays are independently optional: before a
\* call is made, every subset of them is rendered exactly by some choice of
\* its arguments.
C7_EverySubsetRenderable ==
    pc = "idle" =>
        \A S \in SUBSET OverlayKinds : \E a \in RenderingArgs : OverlaysOf(a) = S

\* C7, amended: every overlay is optional and a saved figure holds exactly
\* the overlays whose own arguments were given; pointing, centre, point-source
\* and PSF overlays combine freely, but the region ellipse is drawn only
\* together with the centre marker: the subsets that can be rendered are
\* exactly those that do not hold the region without the centre.
C7_OverlaysOptional ==
    /\ written # <<>> =>
          /\ KindsIn(Rendered) = OverlaysOf(args)
          /\ "region" \in KindsIn(Rendered) => "centre" \in KindsIn(Rendered)
    /\ pc = "idle" =>
          \A S \in SUBSET OverlayKinds :
              ("region" \in S => "centre" \in S)
                  <=> \E a \in RenderingArgs : OverlaysOf(a) = S

C7_Witness ==
    /\ pc = "done"
    /\ written # <<>>
    /\ KindsIn(Rendered) = {"region", "centre"}
    /\ ~IsNone(args.cluster_t500)

----------------------------------------------------------------------------
(* C8 *)

IsPointingLabel(x) == x.kind = "text" /\ x.s \in {"Pointing", "Pointings"}
IsPointingMarkers(x) == x.kind = "scatter" /\ x.color = "white" /\ x.marker = "x"

\* C8, as stated: given a coordinate pair or a list, the pointing overlay
\* places exactly one label per call, 'Pointing' for a pair and 'Pointings'
\* for a list, the latter anchored at (ptg_ra[0], ptg_dec[0] + 0.2).
C8_OnePointingLabelPerCall ==
    (PastPointing /\ DrawsPointing(args)) =>
        /\ Count(Rendered, IsPointingLabel) = 1
        /\ \A k \in 1..Len(Rendered) :
              IsPointingLabel(Rendered[k]) =>
                  /\ Rendered[k].s = IF args.ptg_ra.tag = "list"
                                     THEN "Pointings" ELSE "Pointing"
                  /\ Rendered[k].xy = <<args.ptg_ra.v[1], args.ptg_dec.v[1] + 2>>

\* C8, amended: given a coordinate pair or a non-empty list, the pointing
\* overlay draws one cross per pointing and exactly one label, 'Pointing' at
\* (ptg_ra, ptg_dec + 0.2) for a pair and 'Pointings' at
\* (ptg_ra[0], ptg_dec[0] + 0.2) for a list; given an empty list the call
\* raises IndexError with no label placed and no file written.
C8_PointingLabel ==
    (PastPointing /\ DrawsPointing(args)) =>
        /\ Count(Rendered, IsPointingMarkers) = 1
        /\ \A k \in 1..Len(Rendered) :
              IsPointingMarkers(Rendered[k]) =>
                  Rendered[k].offsets =
                      [n \in 1..Len(args.ptg_ra.v) |-> <<args.ptg_ra.v[n], args.ptg_dec.v[n]>>]
        /\ IF args.ptg_ra.tag = "list" /\ args.ptg_ra.v = <<>>
           THEN /\ pc = "raised"
                /\ raised = "IndexError"
                /\ Count(Rendered, IsPointingLabel) = 0
                /\ written = <<>>
           ELSE /\ raised = "none"
                /\ Count(Rendered, IsPointingLabel) = 1
                /\ \A k \in 1..Len(Rendered) :
                      IsPointingLabel(Rendered[k]) =>
                          /\ Rendered[k].s = IF args.ptg_ra.tag = "list"
                                             THEN "Pointings" ELSE "Pointing"
                          /\ Rendered[k].xy = <<args.ptg_ra.v[1], args.ptg_dec.v[1] + 2>>

C8_Witness ==
    /\ pc = "done"
    /\ written # <<>>
    /\ args.ptg_ra.tag = "list"
    /\ Len(args.ptg_ra.v) = 2
    /\ \E k \in 1..Len(Rendered) :
          /\ IsPointingLabel(Rendered[k])
          /\ Rendered[k].s = "Pointings"
          /\ Rendered[k].xy = <<args.ptg_ra.v[1], args.ptg_dec.v[1] + 2>>

----------------------------------------------------------------------------
(* C9 *)

IsPsMarker(x) == x.kind = "scatter" /\ x.color = "green" /\ x.marker = "o"
IsPsLabel(x) == x.kind = "text" /\ x.color = "green"

\* C9: an entry of the point-source lists whose RA or Dec is None is skipped
\* without raising, and every other entry gets exactly one open-circle marker
\* and one name label, wherever the skipped entries stand in the list.
C9_PointSourcesSkipNone ==
    PastPs =>
        /\ raised = "none"
        /\ Count(Rendered, IsPsMarker)
               = Cardinality({n \in 1..Len(args.ps_name) :
                                  ~IsNone(args.ps_ra[n]) /\ ~IsNone(args.ps_dec[n])})
        /\ \A n \in 1..Len(args.ps_name) :
              LET labels == {k \in 1..Len(Rendered) :
                                 IsPsLabel(Rendered[k]) /\ Rendered[k].s = args.ps_name[n]}
              IN IF IsNone(args.ps_ra[n]) \/ IsNone(args.ps_dec[n])
                 THEN labels = {}
                 ELSE /\ Cardinality(labels) = 1
                      /\ \A k \in labels :
                            /\ Rendered[k].xy = <<Val(args.ps_ra[n]) - 1, Val(args.ps_dec[n]) + 1>>
                            /\ k > 1
                            /\ IsPsMarker(Rendered[k - 1])
                            /\ Rendered[k - 1].offsets
                                   = <<<<Val(args.ps_ra[n]), Val(args.ps_dec[n])>>>>

C9_Witness ==
    /\ pc = "done"
    /\ written # <<>>
    /\ Len(args.ps_name) = 2
    /\ IsNone(args.ps_ra[1])
    /\ ~IsNone(args.ps_ra[2]) /\ ~IsNone(args.ps_dec[2])
    /\ Count(Rendered, IsPsMarker) = 1
    /\ \E k \in 1..Len(Rendered) : IsPsLabel(Rendered[k]) /\ Rendered[k].s = "PS2"

----------------------------------------------------------------------------
(* C10 *)

----------------------------------------------------------------------------
(* C11 *)

\* C11: every file a call opens is closed when the call ends, on every exit
\* path (normal return, the empty-map exit, exit by an error): once a call has
\* ended, and while no call is running, no FITS handle is open.
C11_FilesClosedAtExit == (Ended \/ pc = "idle") => open_files = 0

----------------------------------------------------------------------------
(* get_cta_psf *)

\* Number of points of the logarithmic grid (np.logspace(..., 1000) in the
\* code; the model keeps the construction and shortens the grid).
GridPoints == 4

\* Energies.  The model takes energies that are powers of two, so that every
\* grid point and every power of an energy is exact: an energy is
\* [l |-> log2 of the energy in TeV, ulp |-> its distance from 2^l in units of
\* the last place (-1, 0 or 1)].  EKey orders energies as the floats are ordered.
Energy(l, ulp) == [l |-> l, ulp |-> ulp]
EKey(e) == 3 * e.l + e.ulp

RECURSIVE Pow2(_)
Pow2(n) == IF n = 0 THEN 1 ELSE 2 * Pow2(n - 1)

\* e**w8_slope for e = 2^l, times 2^PowOffset (the factor keeps negative
\* powers integral and is common to the two sums of the weighted mean).
PowOffset == 2 * GridPoints
EnergyPow(e, w8_slope) == Pow2(w8_slope * e.l + PowOffset)

\* The calibration curve read from irf_file.fits and interpolated by
\* interpolate.interp1d(eng_mean, PSF_E, kind='cubic'): the energies eng_mean
\* span 2^lo .. 2^hi, and sigma[l] is the value of the interpolant at 2^l, in
\* 0.01 deg.
FlatCurve ==
    [lo |-> -GridPoints, hi |-> GridPoints + 1,
     sigma |-> [l \in -GridPoints..GridPoints + 1 |-> 5]]
FallingCurve ==
    [lo |-> -GridPoints, hi |-> GridPoints + 1,
     sigma |-> [l \in -GridPoints..GridPoints + 1 |-> 9 - l]]
NarrowCurve ==
    [lo |-> 0, hi |-> GridPoints - 1, sigma |-> [l \in 0..GridPoints - 1 |-> 7 - l]]
Curves == {FlatCurve, FallingCurve, NarrowCurve}

Slopes == {-2, -1, 0}

\* A call of get_cta_psf: the state of the calibration file behind
\* (caldb, irf), its curve, emin and emax (log2, TeV), the rounding of
\* 10**log10(emin) and of 10**log10(emax) in units of the last place, and
\* w8_slope.
CtaCall(file, curve, emin, emax, rnd, w8_slope) ==
    [file |-> file, curve |-> curve, emin |-> emin, emax |-> emax, rnd |-> rnd,
     w8_slope |-> w8_slope]

\* Ranges emin < emax, emin = emax and emin > emax whose grid points are
\* powers of two.
CtaRanges ==
    {<<lo, lo + m * (GridPoints - 1)>> : lo \in 0..1, m \in -1..1}

CtaReadable ==
    {CtaCall("ok", cv, r[1], r[2], <<u, v>>, s) :
        cv \in Curves, r \in CtaRanges, u \in -1..1, v \in -1..1, s \in Slopes}

\* Calls on a calibration file that cannot be opened, or that has no third
\* HDU.
CtaFaults ==
    {CtaCall(f, FlatCurve, 0, GridPoints - 1, <<0, 0>>, -2) :
        f \in {"unreadable", "malformed"}}

CtaCalls == {c \in CtaReadable : c.emin = c.emax => c.rnd[1] = c.rnd[2]} \cup CtaFaults

\* e_itpl = np.logspace(np.log10(emin), np.log10(emax), num): the end points
\* are 10**log10(emin) and 10**log10(emax), the points between are evenly
\* spaced in the logarithm.
logspace(emin, emax, rnd, num) ==
    [k \in 1..num |->
        IF emin = emax THEN Energy(emin, rnd[1])
        ELSE IF k = 1 THEN Energy(emin, rnd[1])
        ELSE IF k = num THEN Energy(emax, rnd[2])
        ELSE Energy(emin + ((k - 1) * (emax - emin)) \div (num - 1), 0)]

e_itpl(c) == logspace(c.emin, c.emax, c.rnd, GridPoints)

\* fitpl(e_itpl) raises ValueError when a point lies outside eng_mean
\* (interp1d, bounds_error left at its default).
OutOfBounds(c) ==
    \E k \in 1..GridPoints :
        \/ EKey(e_itpl(c)[k]) < EKey(Energy(c.curve.lo, 0))
        \/ EKey(e_itpl(c)[k]) > EKey(Energy(c.curve.hi, 0))

\* PSF_itpl = fitpl(e_itpl) * 2*np.sqrt(2*np.log(2)), in 1e-5 deg
\* (2*sqrt(2 ln 2) = 2.355).
PSF_itpl(c) == [k \in 1..GridPoints |-> c.curve.sigma[e_itpl(c)[k].l] * 2355]

\* Variant of weng: the end points of the range are kept.
wengInclusive(c) ==
    [k \in 1..GridPoints |->
        /\ EKey(e_itpl(c)[k]) >= EKey(Energy(c.emin, 0))
        /\ EKey(e_itpl(c)[k]) <= EKey(Energy(c.emax, 0))]

\* weng = (e_itpl > emin) * (e_itpl < emax)
weng(c) ==
    [k \in 1..GridPoints |->
        /\ EKey(e_itpl(c)[k]) > EKey(Energy(c.emin, 0))
        /\ EKey(e_itpl(c)[k]) < EKey(Energy(c.emax, 0))]

\* x[mask] of numpy: the entries of x where mask is true, in order.
RECURSIVE Masked(_, _, _)
Masked(x, mask, k) ==
    IF k > Len(x) THEN <<>>
    ELSE (IF mask[k] THEN <<x[k]>> ELSE <<>>) \o Masked(x, mask, k + 1)

RECURSIVE np_sum(_)
np_sum(x) == IF x = <<>> THEN 0 ELSE Head(x) + np_sum(Tail(x))

\* np.sum(PSF_itpl[weng] * e_itpl[weng]**w8_slope) / np.sum(e_itpl[weng]**w8_slope)
\* kept as the fraction num / den; 0/0 is the float nan.
WeightedMean(c) ==
    LET w == Masked([k \in 1..GridPoints |-> EnergyPow(e_itpl(c)[k], c.w8_slope)],
                    weng(c), 1)
        p == Masked(PSF_itpl(c), weng(c), 1)
    IN [num |-> np_sum([k \in 1..Len(p) |-> p[k] * w[k]]), den |-> np_sum(w)]

IsNaN(x) == x.num = 0 /\ x.den = 0

\* The call, up to hdul = fits.open(data_file).
get_cta_psf(c) ==
    /\ pc = "idle"
    /\ ncalls < MaxCalls
    /\ ncalls' = ncalls + 1
    /\ fn' = "get_cta_psf"
    /\ cta_in' = Some(c)
    /\ infile' = c.file
    /\ IF c.file = "unreadable"
       THEN pc' = "raised" /\ raised' = "OSError" /\ UNCHANGED open_files
       ELSE pc' = "cta_read" /\ open_files' = open_files + 1 /\ UNCHANGED raised
    /\ UNCHANGED <<map_locals, i, warnings, written, fig1, base, psf_log, figsize,
                   cta_ret, admin_vars, irf_vars>>

\* data_PSF = hdul[2].data; hdul.close()
CtaRead ==
    /\ pc = "cta_read"
    /\ IF infile = "malformed"
       THEN pc' = "raised" /\ raised' = "IndexError" /\ UNCHANGED open_files
       ELSE pc' = "cta_mean" /\ open_files' = open_files - 1 /\ UNCHANGED raised
    /\ UNCHANGED <<map_locals, i, warnings, written, fig1, base, psf_log, ncalls,
                   fn, infile, figsize, cta_vars, admin_vars, irf_vars>>

\* The interpolation on the grid, the weighted mean and the return.
CtaMean ==
    /\ pc = "cta_mean"
    /\ IF OutOfBounds(Val(cta_in))
       THEN pc' = "raised" /\ raised' = "ValueError" /\ UNCHANGED cta_ret
       ELSE pc' = "done" /\ cta_ret' = Some(WeightedMean(Val(cta_in)))
                         /\ UNCHANGED raised
    /\ UNCHANGED <<map_locals, i, warnings, written, fig1, base, open_files,
                   psf_log, ncalls, fn, infile, figsize, cta_in, admin_vars,
                   irf_vars>>

NextPsf ==
    \/ \E c \in CtaCalls : get_cta_psf(c)
    \/ CtaRead
    \/ CtaMean
    \/ Return

SpecPsf == Init /\ [][NextPsf]_vars

----------------------------------------------------------------------------
(* C12 *)

\* C12: get_cta_psf called with emin = emax or with emin > emax (no grid point
\* strictly inside the range) fails with an error and returns no value.
C12_DegenerateRangeFails ==
    (fn = "get_cta_psf" /\ Ended /\ infile = "ok"
        /\ Val(cta_in).emin >= Val(cta_in).emax)
    => (raised # "none" /\ IsNone(cta_ret))

----------------------------------------------------------------------------
(* C13 *)

\* The grid points strictly inside (emin, emax).
Inside(c) ==
    {k \in 1..GridPoints :
        /\ EKey(e_itpl(c)[k]) # EKey(Energy(c.emin, 0))
        /\ EKey(e_itpl(c)[k]) # EKey(Energy(c.emax, 0))
        /\ EKey(Energy(c.emin, 0)) <= EKey(e_itpl(c)[k])
        /\ EKey(e_itpl(c)[k]) <= EKey(Energy(c.emax, 0))}

RECURSIVE SumOver(_, _)
SumOver(S, f) ==
    IF S = {} THEN 0
    ELSE LET k == CHOOSE x \in S : TRUE IN f[k] + SumOver(S \ {k}, f)

----------------------------------------------------------------------------
(* events_quicklook, and the plotting routines on files that cannot be read *)

\* The event file given to events_quicklook: readable with events, not a FITS
\* file, without its second extension, or readable with an empty event table.
EventFiles == {"ok", "unreadable", "malformed", "empty"}

\* One panel of the quicklook figure: plt.subplot(pos) and what is drawn in it.
Subplot(pos, title) == [kind |-> "axes", pos |-> pos, title |-> title]

QuicklookPanels ==
    <<Subplot(221, "Photon coordinate map"), Subplot(222, "Photon energy histogram"),
      Subplot(223, "Photon time histogram"), Subplot(224, "Information")>>

\* The call, up to events_hdu = fits.open(evfile), which is outside the try.
events_quicklook(f) ==
    /\ pc = "idle"
    /\ ncalls < MaxCalls
    /\ ncalls' = ncalls + 1
    /\ fn' = "events_quicklook"
    /\ infile' = f
    /\ IF f = "unreadable"
       THEN pc' = "raised" /\ raised' = "OSError" /\ UNCHANGED open_files
       ELSE pc' = "eq_read" /\ open_files' = open_files + 1 /\ UNCHANGED raised
    /\ UNCHANGED <<map_locals, i, warnings, written, fig1, base, psf_log, figsize,
                   cta_vars, admin_vars, irf_vars>>

\* try: events_hdu[1].data, events_hdu[2].data, the three headers,
\* events_hdu.close(); an error goes to the bare except, which prints the
\* message and lets the call return.
EqRead ==
    /\ pc = "eq_read"
    /\ IF infile = "malformed"
       THEN /\ warnings' = Append(warnings, "quicklook_failed")
            /\ pc' = "done"
            /\ UNCHANGED open_files
       ELSE /\ open_files' = open_files - 1
            /\ pc' = "eq_plot"
            /\ UNCHANGED warnings
    /\ UNCHANGED <<map_locals, i, raised, written, fig1, base, psf_log, ncalls, fn,
                   infile, figsize, cta_vars, admin_vars, irf_vars>>

\* plt.figure(1, figsize=(18, 14)) and the four panels.  With an empty event
\* table np.amax raises in the first panel and the bare except ends the call
\* with figure 1 left as it is; otherwise fig.savefig(outfile) and plt.close().
EqPlot ==
    /\ pc = "eq_plot"
    /\ IF infile = "empty"
       THEN /\ fig1' = Append(fig1, QuicklookPanels[1])
            /\ figsize' = IF IsNone(figsize) THEN Some(<<18, 14>>) ELSE figsize
            /\ warnings' = Append(warnings, "quicklook_failed")
            /\ UNCHANGED written
       ELSE /\ written' = Append(written, fig1 \o QuicklookPanels)
            /\ fig1' = <<>>
            /\ figsize' = None
            /\ UNCHANGED warnings
    /\ pc' = "done"
    /\ UNCHANGED <<map_locals, i, raised, base, open_files, psf_log, ncalls, fn,
                   infile, cta_vars, admin_vars, irf_vars>>

\* show_map on a mapfile that is not a FITS file: fits.open(mapfile) raises and
\* nothing else of the call runs.
show_map_unreadable(a) ==
    /\ pc = "idle"
    /\ ncalls < MaxCalls
    /\ ncalls' = ncalls + 1
    /\ fn' = "show_map"
    /\ infile' = "unreadable"
    /\ args' = a
    /\ pc' = "raised"
    /\ raised' = "OSError"
    /\ UNCHANGED <<image, sigma_sm, vmin, vmax, i, warnings, written, fig1, base,
                   open_files, psf_log, figsize, cta_vars, admin_vars, irf_vars>>

\* The get_cta_psf calls made beside the other plotting routines.
CtaSample == CtaFaults \cup {CtaCall("ok", FallingCurve, 0, GridPoints - 1, <<0, 0>>, -2)}

\* The plotting routines together, on readable and unreadable files.
NextPlotting ==
    \/ Next
    \/ \E a \in ImageArgs : show_map_unreadable(a)
    \/ \E f \in EventFiles : events_quicklook(f)
    \/ EqRead
    \/ EqPlot
    \/ \E c \in CtaSample : get_cta_psf(c)
    \/ CtaRead
    \/ CtaMean

SpecPlotting == Init /\ [][NextPlotting]_vars

----------------------------------------------------------------------------
(* C15 *)

\* C15: calls of show_map share no mutable state.  Whatever calls came before
\* (show_map calls that returned, warned or raised, events_quicklook calls), the
\* figure a show_map call saves holds only what this call drew and has the
\* size this call asked for.
C15_ShowMapFigureIsItsOwn ==
    (fn = "show_map" /\ pc = "save")
    => (fig1 = Drawn /\ figsize = Some(<<12, 12>>))

----------------------------------------------------------------------------
(* C16 *)

\* C16: a call given a malformed or unreadable input file ends with an error
\* that reaches the caller and writes nothing; no routine catches the error
\* and returns normally.
C16_BadInputRaises ==
    (Ended /\ infile \in {"unreadable", "malformed"})
    => (raised # "none" /\ written = <<>>)

----------------------------------------------------------------------------
(* C17 *)

\* The image show_map hands to imshow for the arguments a: the raster after
\* smoothing and, if asked for, the significance correction.
FinalImage(a) ==
    LET s == SigmaSm(a.smoothing_FWHM, Abs(a.mapfile.header.cdelt[1]))
        sm == gaussian_filter(a.mapfile.data, s)
    IN IF a.significance THEN Rescale(sm, SignificanceNorm(s)) ELSE sm

\* C17: a show_map call that neither takes the empty-map path nor fails writes
\* the output file exactly once, and the write is its last step: what is
\* written holds the smoothed and corrected image with the resolved colour
\* range and every requested overlay, and once the file is written the call is
\* over and the figure is closed, so nothing is drawn after the write.
C17_WrittenOnceAtTheEnd ==
    fn = "show_map" =>
        /\ Len(written) <= 1
        /\ (pc = "done" /\ \A k \in 1..Len(warnings) : warnings[k] # "empty_map")
              => Len(written) = 1
        /\ written # <<>> =>
              /\ pc = "done"
              /\ fig1 = <<>>
              /\ Rendered[1] = AxesImage(FinalImage(args),
                                         ResolveVmin(args.rangevalue, FinalImage(args)),
                                         ResolveVmax(args.rangevalue, FinalImage(args)),
                                         IF args.logscale THEN "symlog" ELSE "linear")
              /\ OverlaysOf(args) \subseteq KindsIn(Rendered)
              /\ Rendered[Len(Rendered)] = Colorbar

\* A call with smoothing, significance correction and overlays has written its
\* file.
C17_Witness ==
    /\ fn = "show_map" /\ pc = "done"
    /\ Len(written) = 1
    /\ OverlaysOf(args) # {}
    /\ Len(Rendered) > 2

----------------------------------------------------------------------------
(* Admin._check_obsID (clustpipe_admin.py) *)

\* Longest list given as obsID.
MaxList == 3

PyStr(s) == [tag |-> "str", v |-> <<s>>]
\* An int and a tuple, each with its repr.
PyInt(n) == [tag |-> "int", v |-> <<n>>]
PyTuple(s) == [tag |-> "tuple", v |-> <<s>>]

\* self.obs_setup.obsid: the available observation IDs.
ObsSetups == {<<>>, <<"001">>, <<"001", "002">>}

\* What a list given as obsID may hold: IDs, one of which is never available,
\* and a value that is not a string.
ObsElements == {PyStr("001"), PyStr("002"), PyStr("999"), PyInt("1")}

ObsLists == UNION {[1..n -> ObsElements] : n \in 0..MaxList}

\* The values given as obsID that are not lists.
ObsScalars ==
    {PyNone, PyStr("001"), PyStr("002"), PyStr("999"), PyInt("1"), PyTuple("('001',)")}

\* x in self.obs_setup.obsid
IsAvailable(x, ids) == \E k \in 1..Len(ids) : ids[k] = x

\* good = np.array(obsID) == np.array(obsID)
AllGood(obsID) == [k \in 1..Len(obsID) |-> TRUE]

\* The loop over the list, from entry k on: the first entry that is not a
\* string raises; an entry that is not available is marked in good and, unless
\* silent, a warning is printed.
RECURSIVE CheckLoop(_, _, _, _, _)
CheckLoop(obsID, ids, k, good, printed) ==
    IF k > Len(obsID)
    THEN [raised |-> "none", good |-> good, printed |-> printed]
    ELSE IF obsID[k].tag # "str"
         THEN [raised |-> "ValueError", good |-> good, printed |-> printed]
         ELSE IF ~IsAvailable(Val(obsID[k].v), ids)
              THEN CheckLoop(obsID, ids, k + 1, [good EXCEPT ![k] = FALSE],
                             Append(printed, "unknown_obsID"))
              ELSE CheckLoop(obsID, ids, k + 1, good, printed)

\* np.sum(good)
CountGood(good) == Cardinality({k \in 1..Len(good) : good[k]})

\* list(np.array(obsID)[good]): the strings of the entries marked good
RECURSIVE Selected(_, _, _)
Selected(obsID, good, k) ==
    IF k > Len(obsID) THEN <<>>
    ELSE (IF good[k] THEN <<Val(obsID[k].v)>> ELSE <<>>) \o Selected(obsID, good, k + 1)

\* Variant of list_set: the list is returned as it is.
list_keep(x) == {x}

\* list(set(x)): the distinct entries of x, in an order Python does not fix.
list_set(x) ==
    LET S == {x[k] : k \in 1..Len(x)}
    IN {l \in [1..Cardinality(S) -> S] : \A a, b \in 1..Cardinality(S) : l[a] = l[b] => a = b}

\* Variant of ListRaises: a list raises as soon as one of its IDs is unknown.
ListRaisesOnAnyUnknown(good) == CountGood(good) < Len(good) \/ Len(good) = 0

\* if np.sum(good) == 0: raise ValueError("None of the given obsID exist")
ListRaises(good) == CountGood(good) = 0

\* The whole of _check_obsID(obsID), for self.silent = silent.
check_obsID(x, silent) ==
    /\ pc = "idle"
    /\ ncalls < MaxCalls
    /\ ncalls' = ncalls + 1
    /\ fn' = "check_obsID"
    /\ chk_in' = Some([obsID |-> x, silent |-> silent, avail |-> obsid])
    /\ CASE x.tag = "none" ->
              /\ chk_ret' = Some(obsid)
              /\ pc' = "done"
              /\ UNCHANGED <<raised, warnings>>
         [] x.tag = "str" ->
              /\ IF IsAvailable(Val(x.v), obsid)
                 THEN chk_ret' = Some(<<Val(x.v)>>) /\ pc' = "done" /\ UNCHANGED raised
                 ELSE pc' = "raised" /\ raised' = "ValueError" /\ UNCHANGED chk_ret
              /\ UNCHANGED warnings
         [] x.tag = "list" ->
              LET r == CheckLoop(x.v, obsid, 1, AllGood(x.v), <<>>)
              IN /\ warnings' = IF silent THEN warnings ELSE warnings \o r.printed
                 /\ IF r.raised # "none" \/ ListRaises(r.good)
                    THEN pc' = "raised" /\ raised' = "ValueError" /\ UNCHANGED chk_ret
                    ELSE /\ \E l \in list_set(Selected(x.v, r.good, 1)) :
                                chk_ret' = Some(l)
                         /\ pc' = "done"
                         /\ UNCHANGED raised
         [] OTHER ->
              /\ pc' = "raised"
              /\ raised' = "ValueError"
              /\ UNCHANGED <<chk_ret, warnings>>
    /\ UNCHANGED <<map_locals, i, written, fig1, base, open_files, psf_log, infile,
                   figsize, cta_vars, obsid, irf_vars, cfg_vars>>

InitAdmin == \E ids \in ObsSetups : InitWith(ids)

NextAdmin ==
    \/ \E x \in ObsScalars, silent \in BOOLEAN : check_obsID(x, silent)
    \/ \E l \in ObsLists, silent \in BOOLEAN : check_obsID(PyList(l), silent)
    \/ Return

SpecAdmin == InitAdmin /\ [][NextAdmin]_vars

----------------------------------------------------------------------------
(* C18 *)

\* The strings among the entries of a list.
StringsOf(l) == {Val(l[k].v) : k \in {n \in 1..Len(l) : l[n].tag = "str"}}

Elements(l) == {l[k] : k \in 1..Len(l)}

\* C18: _check_obsID either raises ValueError or returns a list whose elements
\* are all available observation IDs; for a list argument the list returned is
\* non-empty, has no duplicates and holds exactly the distinct elements of the
\* argument that are available IDs.
C18_ReturnsAvailableIDs ==
    (fn = "check_obsID" /\ Ended) =>
        LET in == Val(chk_in)
            avail == Elements(in.avail)
        IN \/ raised = "ValueError" /\ IsNone(chk_ret)
           \/ /\ raised = "none"
              /\ Elements(Val(chk_ret)) \subseteq avail
              /\ in.obsID.tag = "list" =>
                    /\ Len(Val(chk_ret)) > 0
                    /\ Cardinality(Elements(Val(chk_ret))) = Len(Val(chk_ret))
                    /\ Elements(Val(chk_ret)) = StringsOf(in.obsID.v) \cap avail

\* A list that repeats an available ID and names an unknown one has been
\* reduced to its available IDs.
C18_Witness ==
    /\ fn = "check_obsID" /\ pc = "done"
    /\ Val(chk_in).obsID = PyList(<<PyStr("002"), PyStr("999"), PyStr("002")>>)
    /\ Val(chk_ret) = <<"002">>

----------------------------------------------------------------------------
(* C19 *)

\* C19: _check_obsID raises ValueError in exactly these cases: a string that
\* is not an available ID; a list with an element that is not a string; a list
\* (the empty list included) none of whose elements is an available ID; an
\* argument that is neither None, a string nor a list.  A list mixing known and
\* unknown IDs does not raise.  self.obs_setup.obsid is left as it was.
C19_RaisesExactlyOnBadArgument ==
    (fn = "check_obsID" /\ Ended) =>
        LET in == Val(chk_in)
            x == in.obsID
            avail == Elements(in.avail)
        IN /\ raised \in {"none", "ValueError"}
           /\ raised = "ValueError" <=>
                 \/ x.tag = "str" /\ Val(x.v) \notin avail
                 \/ x.tag = "list" /\ \E k \in 1..Len(x.v) : x.v[k].tag # "str"
                 \/ x.tag = "list" /\ \A k \in 1..Len(x.v) :
                                         x.v[k].tag = "str" => Val(x.v[k].v) \notin avail
                 \/ x.tag \notin {"none", "str", "list"}
           /\ obsid = in.avail

\* A list mixing a known and an unknown ID has been accepted, and a list with an
\* element that is not a string is being refused.
C19_Witness ==
    /\ fn = "check_obsID" /\ Ended
    /\ \/ /\ raised = "none"
          /\ Val(chk_in).obsID = PyList(<<PyStr("999"), PyStr("001")>>)
       \/ /\ raised = "ValueError"
          /\ Val(chk_in).obsID = PyList(<<PyStr("001"), PyInt("1")>>)

----------------------------------------------------------------------------
(* show_irf: the selection of the responses to plot *)

\* Longest pair of input lists.
MaxIrf == 3

\* Names are strings, kept as sequences of characters: the selection key of
\* the code is the concatenation caldb_in[i] + irf_in[i].
CaldbNames == {<<"p">>, <<"p", "3">>}
IrfNames == {<<"S">>, <<"3", "S">>}

\* The parallel lists caldb_in and irf_in, as one list of pairs.
IrfInputs == UNION {[1..n -> CaldbNames \X IrfNames] : n \in 0..MaxIrf}

\* x in list, for a Python list
InList(x, list) == \E k \in 1..Len(list) : list[k] = x

\* The call: set_default_plot_param() and the three empty lists.
show_irf(l) ==
    /\ pc = "idle"
    /\ ncalls < MaxCalls
    /\ ncalls' = ncalls + 1
    /\ fn' = "show_irf"
    /\ irf_in' = Some([caldb_in |-> [k \in 1..Len(l) |-> l[k][1]],
                       irf_in |-> [k \in 1..Len(l) |-> l[k][2]]])
    /\ list_use' = <<>>
    /\ caldb_use' = <<>>
    /\ irf_use' = <<>>
    /\ irf_files' = <<>>
    /\ i' = 1
    /\ pc' = "irf_select"
    /\ UNCHANGED <<map_locals, warnings, raised, written, fig1, base, open_files,
                   psf_log, infile, figsize, cta_vars, admin_vars>>

\* One iteration of "Select all the unique IRF".
IrfSelect ==
    /\ pc = "irf_select"
    /\ IF i <= Len(Val(irf_in).caldb_in)
       THEN /\ IF ~InList(Val(irf_in).caldb_in[i] \o Val(irf_in).irf_in[i], list_use)
               THEN /\ list_use' = Append(list_use,
                                          Val(irf_in).caldb_in[i] \o Val(irf_in).irf_in[i])
                    /\ caldb_use' = Append(caldb_use, Val(irf_in).caldb_in[i])
                    /\ irf_use' = Append(irf_use, Val(irf_in).irf_in[i])
               ELSE UNCHANGED <<list_use, caldb_use, irf_use>>
            /\ i' = i + 1
            /\ pc' = "irf_select"
       ELSE /\ i' = 1
            /\ pc' = "irf_plot"
            /\ UNCHANGED <<list_use, caldb_use, irf_use>>
    /\ UNCHANGED <<map_locals, warnings, raised, written, fig1, base, open_files,
                   psf_log, ncalls, fn, infile, figsize, cta_vars, admin_vars,
                   irf_in, irf_files>>

\* One iteration of "Loop over all caldb+irf used": the figure of the response
\* (caldb_use[i], irf_use[i]) is saved as plotfile_<list_use[i]>.png and closed.
IrfPlot ==
    /\ pc = "irf_plot"
    /\ IF i <= Len(caldb_use)
       THEN /\ irf_files' = Append(irf_files, [name |-> list_use[i],
                                               caldb |-> caldb_use[i],
                                               irf |-> irf_use[i]])
            /\ i' = i + 1
            /\ pc' = "irf_plot"
       ELSE /\ pc' = "done"
            /\ UNCHANGED <<irf_files, i>>
    /\ UNCHANGED <<map_locals, warnings, raised, written, fig1, base, open_files,
                   psf_log, ncalls, fn, infile, figsize, cta_vars, admin_vars,
                   irf_in, list_use, caldb_use, irf_use>>

NextIrf ==
    \/ \E l \in IrfInputs : show_irf(l)
    \/ IrfSelect
    \/ IrfPlot
    \/ Return

SpecIrf == Init /\ [][NextIrf]_vars

----------------------------------------------------------------------------
(* C20 *)

\* The distinct (caldb, irf) pairs of the input lists, in order of first
\* occurrence.
RECURSIVE FirstPairs(_, _, _)
FirstPairs(in, k, seen) ==
    IF k > Len(in.caldb_in) THEN seen
    ELSE FirstPairs(in, k + 1,
                    IF \E n \in 1..Len(seen) :
                           seen[n] = <<in.caldb_in[k], in.irf_in[k]>>
                    THEN seen
                    ELSE Append(seen, <<in.caldb_in[k], in.irf_in[k]>>))

\* C20: show_irf makes exactly one plot per distinct (caldb, irf) pair of its
\* input lists, in order of first occurrence (two entries are the same response
\* if and only if their caldb are equal and their irf are equal), and every
\* plot goes to a file of its own.
C20_OnePlotPerDistinctPair ==
    (fn = "show_irf" /\ pc = "done") =>
        LET pairs == FirstPairs(Val(irf_in), 1, <<>>)
        IN /\ Len(irf_files) = Len(pairs)
           /\ \A k \in 1..Len(irf_files) :
                 /\ k <= Len(pairs)
                 /\ irf_files[k].caldb = pairs[k][1]
                 /\ irf_files[k].irf = pairs[k][2]
           /\ \A a, b \in 1..Len(irf_files) :
                 irf_files[a].name = irf_files[b].name => a = b

----------------------------------------------------------------------------
(* Admin.config_save and Admin.config_load (clustpipe_admin.py) *)

PyBool(b) == [tag |-> "bool", v |-> <<b>>]
\* A value pickle cannot serialise (a lambda).
PyLambda == [tag |-> "function", v |-> <<"lambda">>]
\* A list of strings.
PyStrList(s) == [tag |-> "list", v |-> s]

\* The attributes of the object, in the order their items are pickled, and the
\* values the caller gives them.
AttrNames == <<"output_dir", "silent", "extra">>
AttrValues(n) ==
    CASE n = "output_dir" -> {PyStr("out"), PyStr("new"), PyStr("no/dir")}
      [] n = "silent" -> {PyBool("True")}
      [] n = "extra" -> {PyNone, PyLambda}

\* self.__dict__: the attributes and obs_setup with its list of IDs.
SelfDict == [attrs |-> attrs, obs_setup |-> obsid]

\* config.pkl in the directory dir.
ConfigFile(dir) == <<dir, "config.pkl">>

\* f with key k set to x (a new key or an old one).
Put(f, k, x) == [m \in DOMAIN f \cup {k} |-> IF m = k THEN x ELSE f[m]]

\* Between calls the caller adds or changes an attribute, removes one, or
\* replaces the list of observation IDs.
SetAttr(n, x) ==
    /\ pc = "idle"
    /\ attrs' = Put(attrs, n, x)
    /\ UNCHANGED <<pc, map_locals, i, warnings, raised, written, fig1, base,
                   open_files, psf_log, ncalls, fn, infile, figsize, cta_vars,
                   obsid, chk_in, chk_ret, irf_vars, fs, cfg_in, saved_dict>>

DelAttr(n) ==
    /\ pc = "idle"
    /\ n \in DOMAIN attrs
    /\ attrs' = [m \in DOMAIN attrs \ {n} |-> attrs[m]]
    /\ UNCHANGED <<pc, map_locals, i, warnings, raised, written, fig1, base,
                   open_files, psf_log, ncalls, fn, infile, figsize, cta_vars,
                   obsid, chk_in, chk_ret, irf_vars, fs, cfg_in, saved_dict>>

SetObsid(ids) ==
    /\ pc = "idle"
    /\ obsid' = ids
    /\ UNCHANGED <<pc, map_locals, i, warnings, raised, written, fig1, base,
                   open_files, psf_log, ncalls, fn, infile, figsize, cta_vars,
                   chk_in, chk_ret, irf_vars, cfg_vars>>

\* pickle: a pickle is a sequence of opcodes, each with its argument.
Tok(op, arg) == [op |-> op, arg |-> arg]

\* The opcodes of one value; a value that cannot be pickled has none.
PickleValue(x) ==
    CASE x.tag = "none" -> <<Tok("NONE", "")>>
      [] x.tag = "bool" -> <<Tok(IF Val(x.v) = "True" THEN "NEWTRUE" ELSE "NEWFALSE", "")>>
      [] x.tag = "str" -> <<Tok("BINUNICODE", Val(x.v))>>
      [] x.tag = "list" ->
            <<Tok("EMPTY_LIST", ""), Tok("MARK", "")>>
            \o [k \in 1..Len(x.v) |-> Tok("BINUNICODE", x.v[k])]
            \o <<Tok("APPENDS", "")>>
      [] OTHER -> <<>>

CanPickle(x) == x.tag \in {"none", "bool", "str", "list"}

\* The items of the dictionary d, as <<name, value>>, in pickling order.
RECURSIVE AttrItems(_, _)
AttrItems(d, k) ==
    IF k > Len(AttrNames) THEN <<>>
    ELSE (IF AttrNames[k] \in DOMAIN d.attrs
          THEN <<<<AttrNames[k], d.attrs[AttrNames[k]]>>>>
          ELSE <<>>) \o AttrItems(d, k + 1)

Items(d) == AttrItems(d, 1) \o <<<<"obs_setup", PyStrList(d.obs_setup)>>>>

\* The opcodes of the items from item k on, up to the first value that cannot
\* be pickled.
RECURSIVE PickleItems(_, _)
PickleItems(items, k) ==
    IF k > Len(items) THEN [raised |-> "none", bytes |-> <<>>]
    ELSE IF ~CanPickle(items[k][2])
         THEN [raised |-> "PicklingError", bytes |-> <<Tok("BINUNICODE", items[k][1])>>]
         ELSE LET rest == PickleItems(items, k + 1)
              IN [raised |-> rest.raised,
                  bytes |-> <<Tok("BINUNICODE", items[k][1])>>
                            \o PickleValue(items[k][2]) \o rest.bytes]

\* pickle.dump(self.__dict__, pfile, pickle.HIGHEST_PROTOCOL): what is written,
\* and the error raised when a value cannot be pickled.
pickle_dump(d) ==
    LET body == PickleItems(Items(d), 1)
    IN IF body.raised = "none"
       THEN [raised |-> "none",
             bytes |-> <<Tok("PROTO", ""), Tok("EMPTY_DICT", ""), Tok("MARK", "")>>
                       \o body.bytes \o <<Tok("SETITEMS", ""), Tok("STOP", "")>>]
       ELSE [raised |-> body.raised,
             bytes |-> <<Tok("PROTO", ""), Tok("EMPTY_DICT", ""), Tok("MARK", "")>>
                       \o body.bytes]

\* The unpickler's stack machine.  The stack holds values, the dictionary
\* being built ([tag |-> "dict", v |-> its items]) and marks.
Mark == [tag |-> "MARK", v |-> <<>>]
TopMark(stack) == CHOOSE n \in 1..Len(stack) :
                      /\ stack[n].tag = "MARK"
                      /\ \A m \in n + 1..Len(stack) : stack[m].tag # "MARK"
\* The entries above the top mark, and the stack below it.
AboveMark(stack) == SubSeq(stack, TopMark(stack) + 1, Len(stack))
BelowMark(stack) == SubSeq(stack, 1, TopMark(stack) - 1)
\* stack with its top entry replaced by x
ReplaceTop(stack, x) == [stack EXCEPT ![Len(stack)] = x]

RECURSIVE Unpickle(_, _, _)
Unpickle(bytes, k, stack) ==
    IF k > Len(bytes) THEN [raised |-> "EOFError", value |-> <<>>]
    ELSE LET t == bytes[k] IN
      CASE t.op = "PROTO" -> Unpickle(bytes, k + 1, stack)
        [] t.op = "NONE" -> Unpickle(bytes, k + 1, Append(stack, PyNone))
        [] t.op = "NEWTRUE" -> Unpickle(bytes, k + 1, Append(stack, PyBool("True")))
        [] t.op = "NEWFALSE" -> Unpickle(bytes, k + 1, Append(stack, PyBool("False")))
        [] t.op = "BINUNICODE" -> Unpickle(bytes, k + 1, Append(stack, PyStr(t.arg)))
        [] t.op = "EMPTY_LIST" -> Unpickle(bytes, k + 1, Append(stack, PyStrList(<<>>)))
        [] t.op = "EMPTY_DICT" ->
              Unpickle(bytes, k + 1, Append(stack, [tag |-> "dict", v |-> <<>>]))
        [] t.op = "MARK" -> Unpickle(bytes, k + 1, Append(stack, Mark))
        [] t.op = "APPENDS" ->
              LET new == AboveMark(stack)
                  below == BelowMark(stack)
                  list == below[Len(below)]
              IN Unpickle(bytes, k + 1,
                          ReplaceTop(below,
                              PyStrList(list.v \o [n \in 1..Len(new) |-> Val(new[n].v)])))
        [] t.op = "SETITEMS" ->
              LET new == AboveMark(stack)
                  below == BelowMark(stack)
                  dict == below[Len(below)]
              IN Unpickle(bytes, k + 1,
                          ReplaceTop(below,
                              [tag |-> "dict",
                               v |-> dict.v \o [n \in 1..Len(new) \div 2 |->
                                                   <<Val(new[2 * n - 1].v), new[2 * n]>>]]))
        [] t.op = "STOP" -> [raised |-> "none", value |-> stack[Len(stack)]]

\* par = pickle.load(pfile), as a dictionary of the model.
pickle_load(bytes) ==
    LET r == Unpickle(bytes, 1, <<>>)
    IN IF r.raised # "none" THEN [raised |-> r.raised, par |-> <<>>]
       ELSE LET its == r.value.v
                names == {its[n][1] : n \in 1..Len(its)} \ {"obs_setup"}
                ValueOf(name) == its[CHOOSE n \in 1..Len(its) : its[n][1] = name][2]
            IN [raised |-> "none",
                par |-> [attrs |-> [m \in names |-> ValueOf(m)],
                         obs_setup |-> ValueOf("obs_setup").v]]

\* Variant of AssignDict: the loaded attributes are merged into the present
\* ones (self.__dict__.update(par)).
UpdateDict(old, par) ==
    [attrs |-> [m \in DOMAIN old.attrs \cup DOMAIN par.attrs |->
                   IF m \in DOMAIN par.attrs THEN par.attrs[m] ELSE old.attrs[m]],
     obs_setup |-> par.obs_setup]

\* self.__dict__ = par
AssignDict(old, par) == par

\* os.mkdir(dir) fails when the parent of dir does not exist.
CanMkdir(dir) == dir # "no/dir"

\* config_save, up to the opening of config.pkl: the directory is made if it
\* does not exist, and open(..., 'wb') creates or empties the file.
config_save ==
    /\ pc = "idle"
    /\ ncalls < MaxCalls
    /\ ncalls' = ncalls + 1
    /\ fn' = "config_save"
    /\ IF "output_dir" \notin DOMAIN attrs
       THEN /\ pc' = "raised" /\ raised' = "AttributeError"
            /\ cfg_in' = Some([file |-> ConfigFile(""), before |-> SelfDict])
            /\ UNCHANGED <<fs, open_files>>
       ELSE LET dir == Val(attrs["output_dir"].v) IN
            /\ cfg_in' = Some([file |-> ConfigFile(dir), before |-> SelfDict])
            /\ IF dir \notin fs.dirs /\ ~CanMkdir(dir)
               THEN /\ pc' = "raised" /\ raised' = "FileNotFoundError"
                    /\ UNCHANGED <<fs, open_files>>
               ELSE /\ fs' = [dirs |-> fs.dirs \cup {dir},
                              files |-> Put(fs.files, ConfigFile(dir), <<>>)]
                    /\ open_files' = open_files + 1
                    /\ pc' = "cfg_dump"
                    /\ UNCHANGED raised
    /\ UNCHANGED <<map_locals, i, warnings, written, fig1, base, psf_log, infile,
                   figsize, cta_vars, obsid, chk_in, chk_ret, irf_vars, attrs,
                   saved_dict>>

\* pickle.dump inside the with block, which closes the file on every path.
\* When the dump fails the file holds what had been flushed: nothing, or the
\* opcodes up to the failure.
CfgDump ==
    /\ pc = "cfg_dump"
    /\ LET file == Val(cfg_in).file
           r == pickle_dump(SelfDict)
       IN IF r.raised = "none"
          THEN /\ fs' = [fs EXCEPT !.files = Put(fs.files, file, r.bytes)]
               /\ saved_dict' = Put(saved_dict, file, SelfDict)
               /\ pc' = "done"
               /\ UNCHANGED raised
          ELSE /\ \E written_bytes \in {<<>>, r.bytes} :
                      fs' = [fs EXCEPT !.files = Put(fs.files, file, written_bytes)]
               /\ pc' = "raised"
               /\ raised' = r.raised
               /\ UNCHANGED saved_dict
    /\ open_files' = open_files - 1
    /\ UNCHANGED <<map_locals, i, warnings, written, fig1, base, psf_log, ncalls,
                   fn, infile, figsize, cta_vars, obsid, chk_in, chk_ret, irf_vars,
                   attrs, cfg_in>>

\* config_load(config_file), up to open(config_file, 'rb').
config_load(config_file) ==
    /\ pc = "idle"
    /\ ncalls < MaxCalls
    /\ ncalls' = ncalls + 1
    /\ fn' = "config_load"
    /\ cfg_in' = Some([file |-> config_file, before |-> SelfDict])
    /\ IF config_file \notin DOMAIN fs.files
       THEN pc' = "raised" /\ raised' = "FileNotFoundError" /\ UNCHANGED open_files
       ELSE pc' = "cfg_load" /\ open_files' = open_files + 1 /\ UNCHANGED raised
    /\ UNCHANGED <<map_locals, i, warnings, written, fig1, base, psf_log, infile,
                   figsize, cta_vars, obsid, chk_in, chk_ret, irf_vars, attrs, fs,
                   saved_dict>>

\* par = pickle.load(pfile) inside the with block, then self.__dict__ = par.
CfgLoad ==
    /\ pc = "cfg_load"
    /\ LET r == pickle_load(fs.files[Val(cfg_in).file])
       IN IF r.raised # "none"
          THEN /\ pc' = "raised"
               /\ raised' = r.raised
               /\ UNCHANGED <<attrs, obsid>>
          ELSE /\ attrs' = AssignDict(SelfDict, r.par).attrs
               /\ obsid' = AssignDict(SelfDict, r.par).obs_setup
               /\ pc' = "done"
               /\ UNCHANGED raised
    /\ open_files' = open_files - 1
    /\ UNCHANGED <<map_locals, i, warnings, written, fig1, base, psf_log, ncalls,
                   fn, infile, figsize, cta_vars, chk_in, chk_ret, irf_vars, fs,
                   cfg_in, saved_dict>>

ConfigDirs == {"out", "new"}

NextConfig ==
    \/ \E k \in 1..Len(AttrNames) : \E x \in AttrValues(AttrNames[k]) :
           SetAttr(AttrNames[k], x)
    \/ \E k \in 1..Len(AttrNames) : DelAttr(AttrNames[k])
    \/ \E ids \in {<<>>, <<"001">>} : SetObsid(ids)
    \/ config_save
    \/ CfgDump
    \/ \E dir \in ConfigDirs : config_load(ConfigFile(dir))
    \/ CfgLoad
    \/ Return

SpecConfig == Init /\ [][NextConfig]_vars

----------------------------------------------------------------------------
(* C21 *)

\* C21: config_save followed by config_load of the file it wrote is a round
\* trip.  After a load that returned, the attribute dictionary of the object
\* equals the one it had at the last save that completed on that file,
\* whatever was added, changed or removed in between; a file a save completed
\* on is one the load accepts; and config_save leaves the attributes as they
\* were, whether it returns or raises.
C21_SaveLoadRoundTrip ==
    /\ (fn = "config_load" /\ pc = "done") =>
          /\ Val(cfg_in).file \in DOMAIN saved_dict
          /\ SelfDict = saved_dict[Val(cfg_in).file]
    /\ (fn = "config_load" /\ pc = "raised") =>
          \/ Val(cfg_in).file \notin DOMAIN fs.files
          \/ Val(cfg_in).file \notin DOMAIN saved_dict
          \/ fs.files[Val(cfg_in).file] # pickle_dump(saved_dict[Val(cfg_in).file]).bytes
    /\ (fn = "config_save" /\ pc \in {"cfg_dump", "done", "raised"}) =>
          SelfDict = Val(cfg_in).before
    /\ (fn = "config_save" /\ pc = "done") =>
          saved_dict[Val(cfg_in).file] = SelfDict

\* A load has returned on an object from which, since the save, one attribute
\* was removed and to which another was added.
C21_Witness ==
    /\ fn = "config_load" /\ pc = "done"
    /\ "silent" \notin DOMAIN Val(cfg_in).before.attrs
    /\ "extra" \in DOMAIN Val(cfg_in).before.attrs
    /\ "silent" \in DOMAIN attrs
    /\ "extra" \notin DOMAIN attrs
    /\ Val(cfg_in).before.obs_setup # obsid

====
